---- MODULE Spec2Model ----
(***************************************************************************)
(* Model of CodeChecker.py: the libclang AST walk that builds a per-unit   *)
(* call graph (build_call_graph), the merge of the units into the global   *)
(* graph, leaf normalisation, root detection (find_root_functions) and the *)
(* recursive renderer (print_call_graph).                                  *)
(*                                                                         *)
(* Python values: a str is a TLA+ string, None is the string None below    *)
(* (never the spelling of a cursor), a dict (insertion ordered) is a       *)
(* sequence of [key, val] records, a set is a set, a list is a sequence.   *)
(***************************************************************************)
EXTENDS Integers, Sequences, FiniteSets, TLC

\* ---------------------------------------------------------------- bounds
MaxUnits == 2          \* translation units in compile_commands.json
MaxMemberKids == 2     \* children of a MEMBER_REF_EXPR cursor
MaxCallKids == 2       \* children of a CALL_EXPR cursor
RecursionLimit == 6    \* frames of print_call_graph the interpreter has room for

\* ------------------------------------------------------- Python values
None == "<None>"

\* `if current_func:` -- None and the empty string are falsy
Truthy(s) == s # None /\ s # ""

\* str.startswith(prefix)
StartsWith(s, prefix) ==
    Len(s) >= Len(prefix) /\ SubSeq(s, 1, Len(prefix)) = prefix

\* `needle in s` for two strings
Contains(s, needle) ==
    \E i \in 1..(Len(s) - Len(needle) + 1) :
        SubSeq(s, i, i + Len(needle) - 1) = needle

\* all sequences over S of length 0..n
SeqsUpTo(S, n) == UNION {[1..k -> S] : k \in 0..n}

\* the elements of a list
Range(s) == {s[i] : i \in DOMAIN s}

\* the orders in which iterating a Python set can yield its elements
Orders(S) == {s \in [1..Cardinality(S) -> S] : Range(s) = S}

\* dict (and defaultdict(list)) operations
EmptyDict == <<>>
Keys(d) == {d[i].key : i \in DOMAIN d}
Has(d, k) == k \in Keys(d)
IndexOf(d, k) == CHOOSE i \in DOMAIN d : d[i].key = k
Get(d, k) == d[IndexOf(d, k)].val
\* d[k] = v
SetItem(d, k, v) ==
    IF Has(d, k) THEN [d EXCEPT ![IndexOf(d, k)].val = v]
    ELSE Append(d, [key |-> k, val |-> v])
\* defaultdict.__getitem__: a missing key is created with an empty list
GetItem(d, k) == IF Has(d, k) THEN d ELSE Append(d, [key |-> k, val |-> <<>>])
\* d[k].append(v) on a defaultdict(list)
AppendTo(d, k, v) ==
    LET d1 == GetItem(d, k)
    IN  [d1 EXCEPT ![IndexOf(d1, k)].val = Append(@, v)]
\* d.values() flattened into the set of list elements
Values(d) == UNION {Range(d[i].val) : i \in DOMAIN d}

\* ------------------------------------------------------------ cursors
\* A cursor: kind, spelling, semantic_parent.spelling, type.spelling,
\* location.file (None or the file's name) and get_children().
Cursor(kind, spelling, parent, type, file, children) ==
    [kind |-> kind, spelling |-> spelling, parent |-> parent,
     type |-> type, file |-> file, children |-> children]

UserFile == "/src/a.cpp"
SystemFiles == {"/usr/include/stdio.h", "/usr/lib/clang/stddef.h",
                "/opt/lib/gcc/x86/limits.h"}
Files == {None, UserFile} \cup SystemFiles

is_system_header_no_gcc(cursor) ==
    LET header == cursor.file
    IN  header = None
        \/ StartsWith(header, "/usr/include")
        \/ StartsWith(header, "/usr/lib")

is_system_header(cursor) ==
    LET header == cursor.file
    IN  header = None
        \/ StartsWith(header, "/usr/include")
        \/ StartsWith(header, "/usr/lib")
        \/ Contains(header, "/lib/gcc")

\* ---------------------------------------------------- build_call_graph
\* The accumulator threaded through the recursion: the two Python
\* containers, plus the record of the walk kept for the properties
\* (visited: the paths of the cursors entered, in order; log: one entry per
\* append to call_graph, with the path of the call expression).
EmptyAcc == [call_graph |-> EmptyDict, all_functions |-> {},
             visited |-> <<>>, log |-> <<>>]

\* the enum member CursorKind.CXX_METHOD used as a condition is truthy
CursorKindTruthy == TRUE

\* lines 111-118: the function context after looking at the node
EnterContext(node, current_func) ==
    IF node.kind = "FUNCTION_DECL" \/ CursorKindTruthy
    THEN IF node.kind = "CXX_METHOD"
         THEN node.parent \o "::" \o node.spelling
         ELSE IF node.kind = "FUNCTION_DECL"
              THEN node.spelling
              ELSE current_func
    ELSE current_func

\* lines 120-121
Register(all_functions, current_func) ==
    IF Truthy(current_func) THEN all_functions \cup {current_func}
    ELSE all_functions

ShouldRecordAnyContext(current_func, child) == child.kind = "CALL_EXPR"

\* line 127
ShouldRecord(current_func, child) ==
    Truthy(current_func) /\ child.kind = "CALL_EXPR"

\* call_graph[current_func].append(f)
AppendEdge(acc, current_func, f, at) ==
    [acc EXCEPT !.call_graph = AppendTo(@, current_func, f),
                !.log = Append(@, [at |-> at, caller |-> current_func,
                                   callee |-> f])]

\* lines 133-136: one edge per child of the member reference
RECURSIVE MemberEdges(_, _, _, _, _)
MemberEdges(acc, current_func, gc, j, at) ==
    IF j > Len(gc.children) THEN acc
    ELSE MemberEdges(
             AppendEdge(acc, current_func,
                        gc.children[j].type \o "::" \o gc.spelling, at),
             current_func, gc, j + 1, at)

\* the child at which the loop of line 130 breaks (0: it runs to its else)
FirstMemberRef(children) ==
    IF \E k \in DOMAIN children : children[k].kind = "MEMBER_REF_EXPR"
    THEN CHOOSE k \in DOMAIN children :
             /\ children[k].kind = "MEMBER_REF_EXPR"
             /\ \A j \in 1..(k - 1) : children[j].kind # "MEMBER_REF_EXPR"
    ELSE 0

\* lines 130-139
RecordCall(acc, current_func, child, at) ==
    LET k == FirstMemberRef(child.children)
    IN  IF k = 0 THEN AppendEdge(acc, current_func, child.spelling, at)
        ELSE MemberEdges(acc, current_func, child.children[k], 1, at)

RECURSIVE build_call_graph(_, _, _, _)
RECURSIVE WalkChildren(_, _, _, _, _)

\* lines 124-141: the loop over node.get_children(), from child i on
WalkChildren(node, path, current_func, i, acc) ==
    IF i > Len(node.children) THEN acc
    ELSE LET child == node.children[i]
             at == Append(path, i)
         IN  IF is_system_header(child)
             THEN WalkChildren(node, path, current_func, i + 1, acc)
             ELSE LET acc1 == IF ShouldRecord(current_func, child)
                              THEN RecordCall(acc, current_func, child, at)
                              ELSE acc
                  IN  WalkChildren(node, path, current_func, i + 1,
                          build_call_graph(child, at, current_func, acc1))

\* lines 105-143; path is the position of node below the root of the walk
build_call_graph(node, path, current_func, acc) ==
    LET func == EnterContext(node, current_func)
        acc1 == [acc EXCEPT
                    !.all_functions = Register(@, func),
                    !.visited = Append(@, path)]
    IN  WalkChildren(node, path, func, 1, acc1)

\* build_call_graph(tu.cursor), line 198
BuildUnit(ast) == build_call_graph(ast, <<>>, None, EmptyAcc)

\* ------------------------------------------------- the merge, lines 199-202
MergeOneAppending(global, unit_graph, func) ==
    LET g1 == GetItem(unit_graph, func)
        old == IF Has(global, func) THEN Get(global, func) ELSE <<>>
    IN  [global_call_graph |-> SetItem(global, func, old \o Get(g1, func)),
         call_graph |-> g1]

\* global_call_graph[func] = call_graph[func], line 201
\* (call_graph is a defaultdict: reading a missing key creates it)
MergeOne(global, unit_graph, func) ==
    LET g1 == GetItem(unit_graph, func)
    IN  [global_call_graph |-> SetItem(global, func, Get(g1, func)),
         call_graph |-> g1]

\* for func in funcs: global_call_graph[func] = call_graph[func]
RECURSIVE MergeUnit(_, _, _, _)
MergeUnit(global, unit_graph, order, i) ==
    IF i > Len(order)
    THEN [global_call_graph |-> global, call_graph |-> unit_graph]
    ELSE LET m == MergeOne(global, unit_graph, order[i])
         IN  MergeUnit(m.global_call_graph, m.call_graph, order, i + 1)

\* sorted(all_functions), line 206: the identities of the model in
\* code-point order
SortedIdentities == <<"T::", "T::f", "T::g", "f", "g">>
sorted(S) == SelectSeq(SortedIdentities, LAMBDA x : x \in S)

NormalizeLeafNever(graph, func) == GetItem(graph, func)

\* lines 215-216
NormalizeLeaf(graph, func) ==
    LET g1 == GetItem(graph, func)
    IN  IF Len(Get(g1, func)) = 0 THEN AppendTo(g1, func, None) ELSE g1

\* ----------------------------------------------------- find_root_functions
find_root_functions_first_callee(graph) ==
    LET all_called == {graph[i].val[1] : i \in {j \in DOMAIN graph : graph[j].val # <<>>}}
        keys == [i \in DOMAIN graph |-> graph[i].key]
    IN  SelectSeq(keys, LAMBDA f : f \notin all_called)

\* lines 145-150
find_root_functions(graph) ==
    LET all_called == Values(graph)
        keys == [i \in DOMAIN graph |-> graph[i].key]
    IN  SelectSeq(keys, LAMBDA f : f \notin all_called)

\* -------------------------------------------------------------- the inputs
DeclKinds == {"FUNCTION_DECL", "CXX_METHOD"}

TU(children) == Cursor("TRANSLATION_UNIT", "a.cpp", "", "", None, children)
Decl(kind, name, file, body) == Cursor(kind, name, "T", "void ()", file, body)
Call(name, file, children) == Cursor("CALL_EXPR", name, "", "void", file, children)

ObjExprs == {Cursor("DECL_REF_EXPR", "obj", "", "T", UserFile, <<>>)}
ArgExprs == {Cursor("DECL_REF_EXPR", "x", "", "int", UserFile, <<>>)}
MemberRefs ==
    {Cursor("MEMBER_REF_EXPR", m, "", "<bound member function type>",
            UserFile, kids) :
        m \in {"g", "m"}, kids \in SeqsUpTo(ObjExprs, MaxMemberKids)}

\* one function holding one call expression, every shape of its children
CallShapeUnits ==
    {TU(<<Decl(k, "f", UserFile, <<Call(s, UserFile, kids)>>)>>) :
        k \in DeclKinds, s \in {"g", "h"},
        kids \in SeqsUpTo(MemberRefs \cup ArgExprs, MaxCallKids)}

\* a declaration, a statement and a call, every origin of each
OriginUnits ==
    {TU(<<Decl(k, n, f1,
               <<Cursor("COMPOUND_STMT", "", "", "", f2,
                        <<Call("h", f3, <<>>)>>)>>)>>) :
        k \in DeclKinds, n \in {"g", ""}, f1 \in Files, f2 \in Files,
        f3 \in Files}

\* the units of a project: functions f and g and method T::g calling each
\* other and the undeclared h
Bodies ==
    {<<>>, <<Call("h", UserFile, <<>>), Call("g", UserFile, <<>>)>>}
    \cup {<<Call(s, UserFile, <<>>)>> : s \in {"f", "g", "h"}}
ProjectUnits ==
    {TU(<<Decl("FUNCTION_DECL", n, UserFile, b)>>) :
        n \in {"f", "g"}, b \in Bodies}
    \cup {TU(<<Decl("CXX_METHOD", "g", UserFile, b)>>) :
            b \in {<<>>, <<Call("g", UserFile, <<>>)>>}}
    \cup {TU(<<Decl("FUNCTION_DECL", "f", UserFile, b1),
               Decl("FUNCTION_DECL", "g", UserFile, b2)>>) :
            b1 \in {<<>>, <<Call("g", UserFile, <<>>)>>},
            b2 \in {<<Call("g", UserFile, <<>>)>>,
                    <<Call("f", UserFile, <<>>)>>}}
    \cup {TU(<<Call("h", UserFile, <<>>)>>)}

\* index.parse either returns the unit or raises TranslationUnitLoadError
Parsed(ast) == [ok |-> TRUE, ast |-> ast]
LoadError == [ok |-> FALSE, ast |-> TU(<<>>)]

\* ------------------------------------------------------------------ state
VARIABLES
    source_files,       \* line 190, with the outcome of parsing each entry
    idx,                \* the unit the loop of line 194 is at
    call_graph,         \* line 198: the graph of the last unit built
    funcs,              \* line 198: the functions of the last unit built
    walk,               \* that unit's index, the paths its walk entered and
                        \* the appends it made
    pending,            \* line 199: the functions the loop over funcs has
                        \* still to visit, in the set's iteration order
    global_call_graph,  \* line 191
    all_functions,      \* line 192
    all_funcs,          \* line 206
    nidx,               \* the function the loop of line 213 is at
    root_funcs,         \* line 218
    ridx,               \* the root the loop of line 224 is at
    stack,              \* the active calls of print_call_graph
    out,                \* what lines 209-230 have printed
    pc

vars == <<source_files, idx, call_graph, funcs, walk, pending,
          global_call_graph,
          all_functions, all_funcs, nidx, root_funcs, ridx, stack, out, pc>>

Start(files) ==
    /\ source_files = files
    /\ idx = 1
    /\ call_graph = EmptyDict
    /\ funcs = {}
    /\ walk = [unit |-> 0, visited |-> <<>>, log |-> <<>>]
    /\ pending = <<>>
    /\ global_call_graph = EmptyDict
    /\ all_functions = {}
    /\ all_funcs = <<>>
    /\ nidx = 1
    /\ root_funcs = <<>>
    /\ ridx = 1
    /\ stack = <<>>
    /\ out = ""
    /\ pc = "units"

Init ==
    \/ \E files \in SeqsUpTo({Parsed(a) : a \in ProjectUnits} \cup {LoadError},
                             MaxUnits) : Start(files)
    \/ \E a \in CallShapeUnits \cup OriginUnits : Start(<<Parsed(a)>>)

\* --------------------------------------------------- the loop of line 194
\* lines 195-198: the unit parses and is walked; the loop of line 199 is
\* about to run over funcs in the order the set iterates
BuildStep ==
    /\ pc = "units"
    /\ idx <= Len(source_files)
    /\ source_files[idx].ok
    /\ LET r == BuildUnit(source_files[idx].ast)
       IN  /\ call_graph' = r.call_graph
           /\ funcs' = r.all_functions
           /\ walk' = [unit |-> idx, visited |-> r.visited, log |-> r.log]
           /\ pending' \in Orders(r.all_functions)
    /\ pc' = "merge"
    /\ UNCHANGED <<source_files, idx, global_call_graph, all_functions,
                   all_funcs, nidx, root_funcs, ridx, stack, out>>

\* one pass of the loop of lines 199-201
MergeStep ==
    /\ pc = "merge"
    /\ pending # <<>>
    /\ LET m == MergeOne(global_call_graph, call_graph, Head(pending))
       IN  /\ global_call_graph' = m.global_call_graph
           /\ call_graph' = m.call_graph
    /\ pending' = Tail(pending)
    /\ UNCHANGED <<source_files, idx, funcs, walk, all_functions, all_funcs,
                   nidx, root_funcs, ridx, stack, out, pc>>

\* all_functions.update(funcs), line 202, and on to the next unit
UpdateFunctions ==
    /\ pc = "merge"
    /\ pending = <<>>
    /\ all_functions' = all_functions \cup funcs
    /\ idx' = idx + 1
    /\ pc' = "units"
    /\ UNCHANGED <<source_files, call_graph, funcs, walk, pending,
                   global_call_graph, all_funcs, nidx, root_funcs, ridx,
                   stack, out>>

ParseErrorAborts ==
    /\ pc = "units"
    /\ idx <= Len(source_files)
    /\ ~source_files[idx].ok
    /\ idx' = Len(source_files) + 1
    /\ UNCHANGED <<source_files, call_graph, funcs, walk, pending,
                   global_call_graph,
                   all_functions, all_funcs, nidx, root_funcs, ridx, stack,
                   out, pc>>

\* lines 203-204: the parse raises, the error is printed, the loop goes on
ParseError ==
    /\ pc = "units"
    /\ idx <= Len(source_files)
    /\ ~source_files[idx].ok
    /\ idx' = idx + 1
    /\ UNCHANGED <<source_files, call_graph, funcs, walk, pending,
                   global_call_graph,
                   all_functions, all_funcs, nidx, root_funcs, ridx, stack,
                   out, pc>>

\* lines 206-210
EndUnits ==
    /\ pc = "units"
    /\ idx > Len(source_files)
    /\ all_funcs' = sorted(all_functions)
    /\ IF all_functions = {}
       THEN /\ out' = "No functions found in the file.\n"
            /\ pc' = "exit"
       ELSE /\ out' = out
            /\ pc' = "normalize"
    /\ UNCHANGED <<source_files, idx, call_graph, funcs, walk, pending,
                   global_call_graph, all_functions, nidx, root_funcs, ridx,
                   stack>>

\* lines 213-216, one function; the list of a function of the last unit
\* built is the same object in call_graph and in global_call_graph
NormalizeStep ==
    /\ pc = "normalize"
    /\ nidx <= Len(all_funcs)
    /\ LET func == all_funcs[nidx]
       IN  /\ global_call_graph' = NormalizeLeaf(global_call_graph, func)
           /\ call_graph' = IF func \in funcs /\ Has(call_graph, func)
                            THEN NormalizeLeaf(call_graph, func)
                            ELSE call_graph
    /\ nidx' = nidx + 1
    /\ UNCHANGED <<source_files, idx, funcs, walk, pending,
                   all_functions, all_funcs,
                   root_funcs, ridx, stack, out, pc>>

\* lines 218-223
FindRoots ==
    /\ pc = "normalize"
    /\ nidx > Len(all_funcs)
    /\ root_funcs' = find_root_functions(global_call_graph)
    /\ IF root_funcs' = <<>>
       THEN /\ out' = "No root functions found.\n\n"
            /\ pc' = "done"
       ELSE /\ out' = "\nCall graph:"
            /\ pc' = "render"
    /\ UNCHANGED <<source_files, idx, call_graph, funcs, walk, pending,
                   global_call_graph, all_functions, all_funcs, nidx, ridx,
                   stack>>

\* --------------------------------------------------------- print_call_graph
\* An active call print_call_graph(call_graph, func, lenght): i = 0 before
\* line 154 has run, then the position of the loop of line 158.
Frame(func, lenght, i) == [func |-> func, lenght |-> lenght, i |-> i]

Top == stack[Len(stack)]
Pop == SubSeq(stack, 1, Len(stack) - 1)
ReplaceTop(frame) == [stack EXCEPT ![Len(stack)] = frame]

RECURSIVE Spaces(_)
Spaces(n) == IF n <= 0 THEN "" ELSE " " \o Spaces(n - 1)

\* lines 159-167: what is printed for one callee
CalleeText(callees, callee, lenght) ==
    (IF Len(callees) > 1 THEN "\n" \o Spaces(lenght) \o "|" ELSE "")
    \o (IF callee = None THEN "-> None" ELSE "-> " \o callee \o "()")

\* lines 224-229: the next root is printed and rendered
RenderRoot ==
    /\ pc = "render"
    /\ stack = <<>>
    /\ ridx <= Len(root_funcs)
    /\ out' = out \o "\n" \o root_funcs[ridx] \o "()"
    /\ stack' = <<Frame(root_funcs[ridx], 0, 0)>>
    /\ ridx' = ridx + 1
    /\ UNCHANGED <<source_files, idx, call_graph, funcs, walk, pending,
                   global_call_graph, all_functions, all_funcs, nidx,
                   root_funcs, pc>>

RenderEnterCreating ==
    /\ pc = "render"
    /\ stack # <<>>
    /\ Top.i = 0
    /\ IF Top.func = None
       THEN /\ stack' = Pop
            /\ global_call_graph' = global_call_graph
       ELSE /\ global_call_graph' = GetItem(global_call_graph, Top.func)
            /\ stack' = ReplaceTop(Frame(Top.func,
                                         Top.lenght + Len(Top.func) + 2, 1))
    /\ UNCHANGED <<source_files, idx, call_graph, funcs, walk, pending,
                   all_functions, all_funcs, nidx, root_funcs, ridx, out, pc>>

\* lines 154-157: None returns at once, a function that is no key of the
\* graph returns after the test of line 157
RenderEnter ==
    /\ pc = "render"
    /\ stack # <<>>
    /\ Top.i = 0
    /\ IF Top.func = None
       THEN stack' = Pop
       ELSE IF Has(global_call_graph, Top.func)
            THEN stack' = ReplaceTop(Frame(Top.func,
                                           Top.lenght + Len(Top.func) + 2, 1))
            ELSE stack' = Pop
    /\ UNCHANGED <<source_files, idx, call_graph, funcs, walk, pending,
                   global_call_graph, all_functions, all_funcs, nidx,
                   root_funcs, ridx, out, pc>>

\* lines 158-168 in a call below the recursion limit: the next callee is
\* printed and print_call_graph is called on it
RenderCallee ==
    /\ pc = "render"
    /\ stack # <<>>
    /\ Top.i >= 1
    /\ Top.i <= Len(Get(global_call_graph, Top.func))
    /\ Len(stack) < RecursionLimit
    /\ LET callees == Get(global_call_graph, Top.func)
           callee == callees[Top.i]
       IN  /\ out' = out \o CalleeText(callees, callee, Top.lenght)
           /\ stack' = Append(ReplaceTop(Frame(Top.func, Top.lenght,
                                               Top.i + 1)),
                              Frame(callee, Top.lenght, 0))
    /\ UNCHANGED <<source_files, idx, call_graph, funcs, walk, pending,
                   global_call_graph, all_functions, all_funcs, nidx,
                   root_funcs, ridx, pc>>

\* lines 159-167 in a call at the interpreter's recursion limit: the call
\* was entered and has run lines 154-158, its first print (line 160 when
\* the list has several callees, else line 165 or 167) raises
\* RecursionError before anything is printed, and nothing catches it.  A
\* call at the limit on None or on a function that is no key of the graph
\* prints nothing and returns (RenderEnter).
RenderOverflow ==
    /\ pc = "render"
    /\ stack # <<>>
    /\ Top.i >= 1
    /\ Top.i <= Len(Get(global_call_graph, Top.func))
    /\ Len(stack) >= RecursionLimit
    /\ pc' = "RecursionError"
    /\ UNCHANGED <<source_files, idx, call_graph, funcs, walk, pending,
                   global_call_graph, all_functions, all_funcs, nidx,
                   root_funcs, ridx, stack, out>>

\* the loop of line 158 is exhausted: the call returns
RenderReturn ==
    /\ pc = "render"
    /\ stack # <<>>
    /\ Top.i >= 1
    /\ Top.i > Len(Get(global_call_graph, Top.func))
    /\ stack' = Pop
    /\ UNCHANGED <<source_files, idx, call_graph, funcs, walk, pending,
                   global_call_graph, all_functions, all_funcs, nidx,
                   root_funcs, ridx, out, pc>>

\* line 230
RenderDone ==
    /\ pc = "render"
    /\ stack = <<>>
    /\ ridx > Len(root_funcs)
    /\ out' = out \o "\n"
    /\ pc' = "done"
    /\ UNCHANGED <<source_files, idx, call_graph, funcs, walk, pending,
                   global_call_graph, all_functions, all_funcs, nidx,
                   root_funcs, ridx, stack>>

Next ==
    \/ BuildStep
    \/ MergeStep
    \/ UpdateFunctions
    \/ ParseError
    \/ EndUnits
    \/ NormalizeStep
    \/ FindRoots
    \/ RenderRoot
    \/ RenderEnter
    \/ RenderCallee
    \/ RenderOverflow
    \/ RenderReturn
    \/ RenderDone

Spec == Init /\ [][Next]_vars

\* ------------------------------------------------------------ properties
\* The cursors of a unit by position: the path of a cursor is the sequence
\* of child indices leading to it from the root.
RECURSIVE NodeAt(_, _)
NodeAt(node, path) ==
    IF path = <<>> THEN node
    ELSE NodeAt(node.children[Head(path)], Tail(path))

RECURSIVE PathsBelow(_, _)
PathsBelow(node, path) ==
    {path} \cup UNION {PathsBelow(node.children[i], Append(path, i)) :
                          i \in DOMAIN node.children}
AllPaths(ast) == PathsBelow(ast, <<>>)

\* an origin the filter is meant for: no file, or a file of SystemFiles
SystemOrigin(node) == node.file = None \/ node.file \in SystemFiles

\* the paths at or below a cursor of system origin, the root counted or not
InSystemSubtree(ast, from) ==
    {p \in AllPaths(ast) :
        \E k \in from..Len(p) : SystemOrigin(NodeAt(ast, SubSeq(p, 1, k)))}

Identity(node) ==
    IF node.kind = "CXX_METHOD" THEN node.parent \o "::" \o node.spelling
    ELSE node.spelling

\* the enclosing function of the cursor at p: the identity of its nearest
\* proper ancestor that is a declaration, None without one
ContextAt(ast, p) ==
    LET decls == {k \in 0..(Len(p) - 1) :
                     NodeAt(ast, SubSeq(p, 1, k)).kind \in DeclKinds}
    IN  IF decls = {} THEN None
        ELSE Identity(NodeAt(ast, SubSeq(p, 1,
                 CHOOSE k \in decls : \A j \in decls : j <= k)))

\* the call expressions with an enclosing function, outside every filtered
\* subtree
TrackedCalls(ast) ==
    {p \in AllPaths(ast) \ InSystemSubtree(ast, 1) :
        /\ NodeAt(ast, p).kind = "CALL_EXPR"
        /\ Truthy(ContextAt(ast, p))}

\* the unit whose walk is recorded in walk
Built == walk.unit # 0
BuiltAst == source_files[walk.unit].ast
\* the callees appended for the call expression at p, in order
EdgesAt(p) ==
    LET es == SelectSeq(walk.log, LAMBDA e : e.at = p)
    IN  [i \in DOMAIN es |-> es[i].callee]

\* the units processed so far, and what each declares and records
Processed == {k \in 1..(idx - 1) : source_files[k].ok}
UnitResult(k) == BuildUnit(source_files[k].ast)
Declares(k, f) == f \in UnitResult(k).all_functions
UnitEdges(k, f) ==
    IF Has(UnitResult(k).call_graph, f) THEN Get(UnitResult(k).call_graph, f)
    ELSE <<>>
LastDeclaring(f) ==
    CHOOSE k \in Processed :
        Declares(k, f) /\ \A j \in Processed : Declares(j, f) => j <= k

UnitsMerged == pc = "units" \/ (pc = "normalize" /\ nidx = 1)
Normalized ==
    \/ pc = "normalize" /\ nidx > Len(all_funcs)
    \/ pc \in {"render", "done", "RecursionError"}
RootsFound == pc \in {"render", "RecursionError"} \/ (pc = "done")

\* C1: once the roots are computed, root_funcs lists, each once, exactly the
\* members of all_functions that occur in no callee list of
\* global_call_graph.
C1_RootsAreTheUncalledFunctions ==
    RootsFound =>
        /\ Range(root_funcs) =
               {f \in all_functions :
                   \A i \in DOMAIN global_call_graph :
                       \A j \in DOMAIN global_call_graph[i].val :
                           global_call_graph[i].val[j] # f}
        /\ Cardinality(Range(root_funcs)) = Len(root_funcs)

C1_Witness ==
    /\ pc = "done"
    /\ root_funcs # <<>>
    /\ \E f \in all_functions :
           /\ f \notin Range(root_funcs)
           /\ \E i \in DOMAIN global_call_graph :
                  /\ Len(global_call_graph[i].val) > 1
                  /\ global_call_graph[i].val[2] = f

\* C2: rendering finishes on every graph, and no function is expanded twice
\* along one recursion path (a callee already on the path is marked
\* [recursive] and not descended into).
C2_RenderingStopsAtRecursion ==
    /\ pc # "RecursionError"
    /\ \A i, j \in DOMAIN stack :
           (i < j /\ stack[i].i >= 1 /\ stack[j].i >= 1)
               => stack[i].func # stack[j].func

\* C3: before leaf normalisation, global_call_graph[f] is, for every f of
\* all_functions, the edge list of the last processed unit that declares f.
C3_LastWriterWins ==
    UnitsMerged =>
        \A f \in all_functions :
            /\ Has(global_call_graph, f)
            /\ Get(global_call_graph, f) = UnitEdges(LastDeclaring(f), f)

C3_Witness ==
    /\ pc = "normalize"
    /\ nidx = 1
    /\ \E f \in all_functions :
           \E k1, k2 \in Processed :
               /\ k1 < k2
               /\ Declares(k1, f) /\ Declares(k2, f)
               /\ UnitEdges(k1, f) # <<>>
               /\ UnitEdges(k2, f) = <<>>
               /\ Get(global_call_graph, f) = <<>>

\* C4: every call expression with an enclosing function, outside the
\* filtered subtrees, adds exactly one edge, so there are as many edges as
\* such call expressions.
C4_OneEdgePerCall ==
    Built =>
        /\ \A p \in TrackedCalls(BuiltAst) : Len(EdgesAt(p)) = 1
        /\ Len(walk.log) = Cardinality(TrackedCalls(BuiltAst))

\* C5: once the leaves are normalised every function of all_functions has a
\* non-empty callee list, which is <<None>> exactly when the function has no
\* recorded callee and holds no None otherwise.
C5_LeafNormalization ==
    Normalized =>
        \A f \in all_functions :
            /\ Has(global_call_graph, f)
            /\ Get(global_call_graph, f) # <<>>
            /\ UnitEdges(LastDeclaring(f), f) = <<>>
                   <=> Get(global_call_graph, f) = <<None>>
            /\ None \in Range(Get(global_call_graph, f))
                   => Get(global_call_graph, f) = <<None>>

C5_Witness ==
    /\ pc = "done"
    /\ \E f, g \in all_functions :
           /\ Get(global_call_graph, f) = <<None>>
           /\ Len(Get(global_call_graph, g)) > 1

\* A run of the loop of line 194 over units that all parse, as one fold:
\* the graph and the function set after the units from i on.
RECURSIVE RunOver(_, _, _)
RunOver(files, i, acc) ==
    IF i > Len(files) THEN acc
    ELSE LET r == BuildUnit(files[i].ast)
             order == CHOOSE o \in Orders(r.all_functions) : TRUE
             m == MergeUnit(acc.graph, r.call_graph, order, 1)
         IN  RunOver(files, i + 1,
                     [graph |-> m.global_call_graph,
                      functions |-> acc.functions \cup r.all_functions])
Entries(d) == {<<d[i].key, d[i].val>> : i \in DOMAIN d}

\* C6: a unit whose parse fails leaves the accumulator as it was and the
\* loop goes on: after any number of units the global graph and function
\* set are those of a run over the same units without the failing ones,
\* and the loop ends only after the last unit.
C6_ParseFailureSkipsTheUnit ==
    /\ pc = "units" =>
           LET done == SubSeq(source_files, 1, idx - 1)
               ref == RunOver(SelectSeq(done, LAMBDA u : u.ok), 1,
                              [graph |-> EmptyDict, functions |-> {}])
           IN  /\ Entries(global_call_graph) = Entries(ref.graph)
               /\ all_functions = ref.functions
    /\ pc \notin {"units", "merge"} => idx = Len(source_files) + 1

C6_Witness ==
    /\ pc = "units"
    /\ idx = 3
    /\ ~source_files[1].ok
    /\ source_files[2].ok
    /\ global_call_graph # EmptyDict

\* C7: no step of print_call_graph changes the graph, whatever it renders.
C7_RenderingLeavesTheGraph ==
    [][pc = "render" => global_call_graph' = global_call_graph]_vars

C7_Witness ==
    /\ pc = "done"
    /\ \E i \in DOMAIN root_funcs :
           LET callees == Get(global_call_graph, root_funcs[i])
           IN  \E c \in Range(callees) :
                   c # None /\ ~Has(global_call_graph, c)
    /\ None \in Values(global_call_graph)

\* C8: the edge of a call expression is Type::member when its first child
\* is a member reference (Type the static type of that reference's object
\* expression) and the call expression's own spelling in every other case.
C8_TargetFromFirstChild ==
    Built =>
        \A p \in TrackedCalls(BuiltAst) :
            LET c == NodeAt(BuiltAst, p)
            IN  IF c.children # <<>> /\ c.children[1].kind = "MEMBER_REF_EXPR"
                THEN Len(c.children[1].children) = 1 =>
                         EdgesAt(p) = <<c.children[1].children[1].type \o "::"
                                            \o c.children[1].spelling>>
                ELSE EdgesAt(p) = <<c.spelling>>

\* the identities of the declarations of the units that parse
DeclaredAnywhere ==
    UNION {{Identity(NodeAt(source_files[k].ast, p)) :
               p \in {q \in AllPaths(source_files[k].ast) :
                         NodeAt(source_files[k].ast, q).kind \in DeclKinds}} :
           k \in {j \in DOMAIN source_files : source_files[j].ok}}

\* the keys of the graphs, the function sets and the roots hold declared
\* identities only, and no edge has an empty caller
OnlyDeclaredIdentities ==
    /\ Keys(call_graph) \subseteq funcs
    /\ Range(root_funcs) \subseteq all_functions
    /\ funcs \subseteq DeclaredAnywhere
    /\ all_functions \subseteq DeclaredAnywhere
    /\ \A k \in Keys(call_graph) \cup Keys(global_call_graph) : Truthy(k)
    /\ \A i \in DOMAIN walk.log : Truthy(walk.log[i].caller)

\* C9 as stated: in every state the keys of the unit's and of the global
\* graph are members of the unit's and of the global function set, which
\* hold only declared identities; the roots are members too, and no edge
\* has an empty caller.
C9_KeysAreDeclaredFunctions ==
    /\ OnlyDeclaredIdentities
    /\ Keys(global_call_graph) \subseteq all_functions

\* C9 amended: the same in every state, but for the global graph while
\* the loop of lines 199-201 merges a unit and line 202 has not yet run:
\* its keys are then members of the global function set or functions of
\* the unit being merged that the loop has already passed.
C9_KeysAreDeclaredOnceMerged ==
    /\ OnlyDeclaredIdentities
    /\ pc # "merge" => Keys(global_call_graph) \subseteq all_functions
    /\ pc = "merge" =>
           Keys(global_call_graph) \subseteq
               all_functions \cup (funcs \ Range(pending))

C9_Witness ==
    /\ pc = "done"
    /\ root_funcs # <<>>
    /\ \E c \in Values(global_call_graph) :
           c # None /\ c \notin DeclaredAnywhere
    /\ \E p \in AllPaths(BuiltAst) :
           /\ NodeAt(BuiltAst, p).kind = "CALL_EXPR"
           /\ ContextAt(BuiltAst, p) = None

\* the walk of the last unit built against the subtrees to skip
WalkSkipsExactly(skipped) ==
    /\ Range(walk.visited) = AllPaths(BuiltAst) \ skipped
    /\ Len(walk.visited) = Cardinality(Range(walk.visited))
    /\ funcs \subseteq
           {Identity(NodeAt(BuiltAst, p)) :
               p \in {q \in AllPaths(BuiltAst) \ skipped :
                         NodeAt(BuiltAst, q).kind \in DeclKinds}}
    /\ \A i \in DOMAIN walk.log : walk.log[i].at \notin skipped

\* C10 as stated: every cursor of system origin, the root of the walk
\* included, is skipped with all below it, and every other cursor is
\* visited once.
C10_FilterAtEveryNode == Built => WalkSkipsExactly(InSystemSubtree(BuiltAst, 0))

\* C10: every cursor of system origin other than the root of the walk is
\* skipped with all below it (no function registered, no edge recorded),
\* and every other cursor is visited exactly once.
C10_FilterBelowTheRoot == Built => WalkSkipsExactly(InSystemSubtree(BuiltAst, 1))

C10_Witness ==
    /\ Built
    /\ \E q \in InSystemSubtree(BuiltAst, 1) :
           /\ NodeAt(BuiltAst, q).kind = "CALL_EXPR"
           /\ ~SystemOrigin(NodeAt(BuiltAst, q))
           /\ ContextAt(BuiltAst, q) \in funcs
    /\ walk.log = <<>>

====
